---- MODULE Spec2Model ----
(***************************************************************************)
(* Model of src/app.py: the postal-code -> heating-degree-day pipeline.    *)
(*                                                                         *)
(* Units.  Temperatures are fixed-point integers in thousandths of a       *)
(* degree (7.5 degrees = 7500), so that rounding to two decimals is an     *)
(* operation that changes values.  Coordinates are points of a small       *)
(* integer grid and haversine_km is replaced by the squared planar         *)
(* distance on that grid (only the order of distances is used).  Text      *)
(* fields are sequences of one-character strings.  Timestamps are seconds. *)
(***************************************************************************)
EXTENDS Integers, Sequences, FiniteSets, TLC

VARIABLES
    \* ---- cache store (sqlite tables) and the clock
    plz_cache,      \* plz -> None or [lat, lon, place, ts]
    blob_cache,     \* the one blob key used: None or the station snapshot
    hist_zip_map,   \* sid -> None or [zip_name, ts]
    now,            \* utcnow() timestamp, seconds
    \* ---- one HTTP request being served
    pc,             \* "idle", "load", "items", "done"; "off" in direct calls
    endpoint,       \* "index" or "export"
    plz_list,       \* parse_plz_list(plz_list_text)
    day,            \* the parsed date <<y, m, d>>
    tbase,          \* the parsed base temperature
    stations,       \* the loaded catalog
    rows,           \* RowResult list built so far
    fatal_error,    \* index(): fatal_error, None when unset
    response,       \* None, "200", "400" or "500" (uncaught exception)
    calls,          \* outbound http_get calls of this request, in order
    writes,         \* number of cache upserts committed by this request
    inputs,         \* the request's raw query parameters
    start,          \* the cache tables as the request found them
    world,          \* what each upstream URL answered when it was first asked,
                    \* and how each commit ended
    \* ---- direct calls of single functions
    fn,             \* which function was last applied ("none" before)
    args,           \* its arguments
    ret,            \* what it returned
    last_ok         \* geocode_plz: per postal code, the last successful return
                    \* and when it was made (Nil before)

vars == <<plz_cache, blob_cache, hist_zip_map, now, pc, endpoint, plz_list, day,
          tbase, stations, rows, fatal_error, response, calls, writes, inputs, start,
          world, fn, args, ret, last_ok>>

cacheVars == <<plz_cache, blob_cache, hist_zip_map, now>>
reqVars   == <<pc, endpoint, plz_list, day, tbase, stations, rows, fatal_error,
               response, calls, writes, inputs, start, world>>
fnVars    == <<fn, args, ret, last_ok>>

None   == "None"
Nil    == [nil |-> TRUE]     \* Python's None where the other values are records
Absent == <<>>               \* the dash a row carries for a missing field

----------------------------------------------------------------------------
(* Generic helpers *)

Max(a, b) == IF a >= b THEN a ELSE b

Min(S) == CHOOSE x \in S : \A y \in S : x <= y

Range(s) == {s[i] : i \in 1..Len(s)}

SeqsUpTo(S, n) == UNION {[1..k -> S] : k \in 0..n}

Pow10(n) == CASE n = 0 -> 1 [] n = 1 -> 10 [] n = 2 -> 100 [] OTHER -> 1000

Ok(v)  == [ok |-> TRUE, val |-> v]
Err(m) == [ok |-> FALSE, err |-> m]

----------------------------------------------------------------------------
(* Text -> number conversions *)

Digits == {"0", "1", "2", "3", "4", "5", "6", "7", "8", "9"}

DigitVal(c) ==
    CASE c = "0" -> 0 [] c = "1" -> 1 [] c = "2" -> 2 [] c = "3" -> 3 [] c = "4" -> 4
      [] c = "5" -> 5 [] c = "6" -> 6 [] c = "7" -> 7 [] c = "8" -> 8 [] c = "9" -> 9

AllDigits(s) == Len(s) > 0 /\ \A i \in 1..Len(s) : s[i] \in Digits

RECURSIVE NatOf(_)
NatOf(s) == IF s = <<>> THEN 0
            ELSE NatOf(SubSeq(s, 1, Len(s) - 1)) * 10 + DigitVal(s[Len(s)])

StartsWith(s, c) == Len(s) > 0 /\ s[1] = c

Unsigned(s) == IF StartsWith(s, "-") THEN Tail(s) ELSE s

DotPos(s) == IF \E i \in 1..Len(s) : s[i] = "."
             THEN Min({i \in 1..Len(s) : s[i] = "."}) ELSE 0

IntPart(s)  == IF DotPos(s) = 0 THEN s ELSE SubSeq(s, 1, DotPos(s) - 1)
FracPart(s) == IF DotPos(s) = 0 THEN <<>> ELSE SubSeq(s, DotPos(s) + 1, Len(s))

\* The decimal texts float() is modelled on: -?D+ or -?D+.D{1,3}
IsFloatText(s) ==
    LET u == Unsigned(s) IN
    /\ AllDigits(IntPart(u))
    /\ (DotPos(u) = 0 \/ (AllDigits(FracPart(u)) /\ Len(FracPart(u)) <= 3))

\* float(s), in thousandths
FloatOf(s) ==
    LET u == Unsigned(s)
        m == NatOf(IntPart(u)) * 1000
             + NatOf(FracPart(u)) * Pow10(3 - Len(FracPart(u)))
    IN IF StartsWith(s, "-") THEN 0 - m ELSE m

\* round(x, 2) and the "%.2f" format: to the nearest hundredth, ties to even
Round2(x) ==
    LET q == x \div 10
        r == x % 10
    IN IF r < 5 THEN q * 10
       ELSE IF r > 5 THEN (q + 1) * 10
       ELSE IF q % 2 = 0 THEN q * 10 ELSE (q + 1) * 10

----------------------------------------------------------------------------
(* Calendar dates <<year, month, day>> *)

IsLeap(y) == (y % 4 = 0 /\ y % 100 # 0) \/ y % 400 = 0

DaysInMonth(y, m) ==
    CASE m \in {1, 3, 5, 7, 8, 10, 12} -> 31
      [] m \in {4, 6, 9, 11} -> 30
      [] OTHER -> IF IsLeap(y) THEN 29 ELSE 28

ymd_to_int(d) == d[1] * 10000 + d[2] * 100 + d[3]

PrevDay(d) ==
    IF d[3] > 1 THEN <<d[1], d[2], d[3] - 1>>
    ELSE IF d[2] > 1 THEN <<d[1], d[2] - 1, DaysInMonth(d[1], d[2] - 1)>>
    ELSE <<d[1] - 1, 12, 31>>

RECURSIVE DaysBefore(_, _)
DaysBefore(d, n) == IF n = 0 THEN d ELSE DaysBefore(PrevDay(d), n - 1)

\* dt.date.fromisoformat on a text YYYY<sep>MM<sep>DD
fromisoformat(s) ==
    IF /\ s.sep = "-"
       /\ s.m \in 1..12
       /\ s.d \in 1..DaysInMonth(s.y, s.m)
    THEN Ok(<<s.y, s.m, s.d>>)
    ELSE Err("ValueError")

----------------------------------------------------------------------------
(* compute_hdd *)

compute_hdd_noclamp(tmean, t_base) == Round2(t_base - tmean)

compute_hdd(tmean, t_base) == Max(0, Round2(t_base - tmean))

----------------------------------------------------------------------------
(* read_tmk_from_zip                                                       *)
(* An archive is [kind |-> "zip", prod |-> <has a produkt_*.txt member>,   *)
(* lines |-> <the member's lines, each already split at ";">], or          *)
(* [kind |-> "notzip"] for bytes zipfile cannot open.  A data line is a    *)
(* sequence of fields; the MESS_DATUM field is the yyyymmdd number and the *)
(* TMK field a text.                                                       *)

MsgNoProd   == "ZIP enthaelt keine produkt_*.txt Datei."
MsgNoCols   == "Spalten MESS_DATUM/TMK nicht gefunden."
MsgTmkNA    == "DWD: TMK nicht verfuegbar fuer dieses Datum."
MsgNoRecord == "DWD: kein Datensatz fuer dieses Datum (Verzoegerung/Station offline)."

IndexOf(seq, x) == Min({i \in 1..Len(seq) : seq[i] = x})

\* line 397: the test that decides whether a TMK text is a missing value
TmkMissing_none(v) == v = <<>>

TmkMissing(v) == v = <<>> \/ StartsWith(v, "-")

read_tmk_from_zip(zip_bytes, yyyymmdd) ==
    IF zip_bytes.kind # "zip" THEN Err("BadZipFile")
    ELSE IF ~zip_bytes.prod THEN Err(MsgNoProd)
    ELSE IF zip_bytes.lines = <<>> THEN Err("IndexError")
    ELSE
      LET lines    == zip_bytes.lines
          header   == lines[1]
      IN IF ~("MESS_DATUM" \in Range(header) /\ "TMK" \in Range(header))
         THEN Err(MsgNoCols)
         ELSE
           LET idx_date == IndexOf(header, "MESS_DATUM")
               idx_tmk  == IndexOf(header, "TMK")
               hits     == {i \in 2..Len(lines) :
                               /\ Len(lines[i]) >= Max(idx_date, idx_tmk)
                               /\ lines[i][idx_date] = yyyymmdd}
           IN IF hits = {} THEN Err(MsgNoRecord)
              ELSE LET v == lines[Min(hits)][idx_tmk]
                   IN IF TmkMissing(v) THEN Err(MsgTmkNA)
                      ELSE IF IsFloatText(v) THEN Ok(FloatOf(v))
                      ELSE Err("ValueError")

----------------------------------------------------------------------------
(* nearest_station_for_date                                                *)

Station(sid, von, bis, lat, lon, name) ==
    [sid |-> sid, von |-> von, bis |-> bis, lat |-> lat, lon |-> lon, name |-> name]

MsgNoStation == "Keine DWD-Station gefunden."

BestInit == 2000000000     \* best_d = 1e18: larger than every distance

haversine_km(lat1, lon1, lat2, lon2) ==
    (lat2 - lat1) * (lat2 - lat1) + (lon2 - lon1) * (lon2 - lon1)

\* lines 329-332: the station's window contains the day (0 = open bound)
ValidOn_ignore_bis(s, day_int) == ~(s.von # 0 /\ day_int < s.von)

ValidOn(s, day_int) ==
    /\ ~(s.von # 0 /\ day_int < s.von)
    /\ ~(s.bis # 0 /\ day_int > s.bis)

\* lines 334, 339: the station looked at replaces the best one so far
Closer_le(d, best_d) == d <= best_d

Closer(d, best_d) == d < best_d

\* One of the two loops: scans cat[i..], keeping the first station of least
\* distance among those the loop looks at; best = 0 stands for None.
RECURSIVE NearestLoop(_, _, _, _, _, _, _, _)
NearestLoop(lat, lon, day_int, cat, dated, i, best, best_d) ==
    IF i > Len(cat) THEN <<best, best_d>>
    ELSE IF dated /\ ~ValidOn(cat[i], day_int)
         THEN NearestLoop(lat, lon, day_int, cat, dated, i + 1, best, best_d)
    ELSE LET d == haversine_km(lat, lon, cat[i].lat, cat[i].lon)
         IN IF Closer(d, best_d)
            THEN NearestLoop(lat, lon, day_int, cat, dated, i + 1, i, d)
            ELSE NearestLoop(lat, lon, day_int, cat, dated, i + 1, best, best_d)

nearest_station_for_date(lat, lon, day_int, cat) ==
    LET first  == NearestLoop(lat, lon, day_int, cat, TRUE, 1, 0, BestInit)
        second == IF first[1] = 0
                  THEN NearestLoop(lat, lon, day_int, cat, FALSE, 1, 0, BestInit)
                  ELSE first
    IN IF second[1] = 0 THEN Err(MsgNoStation)
       ELSE [ok |-> TRUE, st |-> cat[second[1]], dist |-> second[2]]

----------------------------------------------------------------------------
(* Upstream answers.  http_get either raises (Fail) or returns a body.     *)

Fail     == [ok |-> FALSE]
Body(b)  == [ok |-> TRUE, body |-> b]
Unset    == [unset |-> TRUE]

MsgHttp == "HTTPError"

\* conn.execute(INSERT OR REPLACE ..) followed by conn.commit() either commits
\* or raises an sqlite3 error (database locked, disk full, read-only file);
\* the statement that raised leaves the table as it was
Committed == Body("committed")

MsgDb == "sqlite3.OperationalError"

K_CommitPlz(p)    == <<"commit_plz", p>>
K_CommitBlob      == <<"commit_blob", 0>>
K_CommitHist(sid) == <<"commit_hist", sid>>

----------------------------------------------------------------------------
(* parse_plz_list: the text is given as its lines (after the separators    *)
(* were turned into line breaks), each line a sequence of characters       *)

DigitsOf(line) == SelectSeq(line, LAMBDA ch : ch \in Digits)

RECURSIVE Dedup(_, _)
Dedup(seq, seen) ==
    IF seq = <<>> THEN <<>>
    ELSE IF Head(seq) \in seen THEN Dedup(Tail(seq), seen)
    ELSE <<Head(seq)>> \o Dedup(Tail(seq), seen \cup {Head(seq)})

RECURSIVE DigitLines(_)
DigitLines(text) ==
    IF text = <<>> THEN <<>>
    ELSE IF DigitsOf(Head(text)) = <<>> THEN DigitLines(Tail(text))
    ELSE <<DigitsOf(Head(text))>> \o DigitLines(Tail(text))

parse_plz_list_nodedup(text) == DigitLines(text)

parse_plz_list(text) == Dedup(DigitLines(text), {})

----------------------------------------------------------------------------
(* geocode_plz *)

PLZ_TTL == 30 * 24 * 3600

MsgGeocode == "PLZ konnte nicht geocodiert werden (keine Koordinaten)."

\* lines 278-281: the display label, as the sequence of its non-empty parts
LabelOf(item) ==
    IF item.place # "" \/ item.state # ""
    THEN SelectSeq(<<item.place, item.state>>, LAMBDA x : x # "")
    ELSE SelectSeq(<<item.display_name>>, LAMBDA x : x # "")

\* line 264: the cached row may be used
PlzFresh_le(crow, t) == crow # Nil /\ (t - crow.ts) <= PLZ_TTL

PlzFresh(crow, t) == crow # Nil /\ (t - crow.ts) < PLZ_TTL

GeoRaise(msg, crow, made) ==
    [ok |-> FALSE, err |-> msg, row |-> crow, calls |-> made, commits |-> <<>>,
     writes |-> 0]

\* lines 276-285: the upsert of the row and the return
GeoStore(p, item, crow, t, made, resp) ==
    IF resp[K_CommitPlz(p)].ok
    THEN [ok |-> TRUE, lat |-> item.lat, lon |-> item.lon, label |-> LabelOf(item),
          row |-> [lat |-> item.lat, lon |-> item.lon, place |-> LabelOf(item), ts |-> t],
          calls |-> made, commits |-> <<K_CommitPlz(p)>>, writes |-> 1]
    ELSE [ok |-> FALSE, err |-> MsgDb, row |-> crow, calls |-> made,
          commits |-> <<K_CommitPlz(p)>>, writes |-> 0]

\* geocode_plz giving up after the first query came back empty
geocode_plz_noretry(p, crow, t, resp) ==
    IF PlzFresh(crow, t)
    THEN [ok |-> TRUE, lat |-> crow.lat, lon |-> crow.lon, label |-> crow.place,
          row |-> crow, calls |-> <<>>, commits |-> <<>>, writes |-> 0]
    ELSE LET k1 == <<"geo1", p>>
         IN IF ~resp[k1].ok THEN GeoRaise(MsgHttp, crow, <<k1>>)
            ELSE IF resp[k1].body # <<>>
                 THEN GeoStore(p, resp[k1].body[1], crow, t, <<k1>>, resp)
            ELSE GeoRaise(MsgGeocode, crow, <<k1>>)

\* crow: the plz_cache row of p (Nil when there is none); t: utcnow();
\* resp: the answer of each URL and the outcome of each commit.  Returns the
\* triple or the exception, the row as it is after the call, the http_get calls
\* made, the commits attempted and the number of them that succeeded.
geocode_plz(p, crow, t, resp) ==
    IF PlzFresh(crow, t)
    THEN [ok |-> TRUE, lat |-> crow.lat, lon |-> crow.lon, label |-> crow.place,
          row |-> crow, calls |-> <<>>, commits |-> <<>>, writes |-> 0]
    ELSE LET k1 == <<"geo1", p>>
             k2 == <<"geo2", p>>
         IN IF ~resp[k1].ok THEN GeoRaise(MsgHttp, crow, <<k1>>)
            ELSE IF resp[k1].body # <<>>
                 THEN GeoStore(p, resp[k1].body[1], crow, t, <<k1>>, resp)
            ELSE IF ~resp[k2].ok THEN GeoRaise(MsgHttp, crow, <<k1, k2>>)
            ELSE IF resp[k2].body = <<>> THEN GeoRaise(MsgGeocode, crow, <<k1, k2>>)
            ELSE GeoStore(p, resp[k2].body[1], crow, t, <<k1, k2>>, resp)

----------------------------------------------------------------------------
(* load_dwd_stations *)

K_StRecent == <<"stations_recent", 0>>
K_StHist   == <<"stations_hist", 0>>

safe_int_yyyymmdd(txt, default) ==
    IF AllDigits(txt) /\ Len(txt) = 8 THEN NatOf(txt) ELSE default

\* lines 294-296: the cached snapshot, one 6-field line per station
SnapshotParses(cached) == \A i \in 1..Len(cached) : Len(cached[i]) = 6

ParseSnapshot(cached) ==
    [i \in 1..Len(cached) |->
        Station(cached[i][1], cached[i][2], cached[i][3], cached[i][4], cached[i][5],
                cached[i][6])]

\* line 322
Snapshot(cat) ==
    [i \in 1..Len(cat) |->
        <<cat[i].sid, cat[i].von, cat[i].bis, cat[i].lat, cat[i].lon, cat[i].name>>]

\* lines 308-315: the lines of the upstream text that are not skipped
Skipped(parts) == Len(parts) < 7 \/ ~AllDigits(parts[1])

\* line 319: float() of the two coordinate fields raises on this line
BadFloat(parts) == ~IsFloatText(parts[5]) \/ ~IsFloatText(parts[6])

RECURSIVE ParseStationLines(_)
ParseStationLines(lines) ==
    IF lines = <<>> THEN <<>>
    ELSE IF Skipped(Head(lines)) THEN ParseStationLines(Tail(lines))
    ELSE LET parts == Head(lines)
         IN <<Station(NatOf(parts[1]),
                      safe_int_yyyymmdd(parts[2], 0),
                      safe_int_yyyymmdd(parts[3], 99991231),
                      FloatOf(parts[5]), FloatOf(parts[6]), parts[7])>>
            \o ParseStationLines(Tail(lines))

LoadRaise(made, blob) ==
    [ok |-> FALSE, stations |-> <<>>, blob |-> blob, calls |-> made, commits |-> <<>>,
     writes |-> 0]

\* lines 306-324: parse the upstream text, store the snapshot, return the list
LoadParse(txt, made, blob, resp) ==
    LET data == IF txt = <<>> THEN <<>> ELSE Tail(txt) IN
    IF \E i \in 1..Len(data) : ~Skipped(data[i]) /\ BadFloat(data[i])
    THEN LoadRaise(made, blob)
    ELSE IF ~resp[K_CommitBlob].ok
    THEN [ok |-> FALSE, stations |-> <<>>, blob |-> blob, calls |-> made,
          commits |-> <<K_CommitBlob>>, writes |-> 0]
    ELSE [ok |-> TRUE, stations |-> ParseStationLines(data),
          blob |-> [content |-> Snapshot(ParseStationLines(data))],
          calls |-> made, commits |-> <<K_CommitBlob>>, writes |-> 1]

\* blob: the blob_cache row of the snapshot key (Nil when there is none)
load_dwd_stations(blob, resp) ==
    IF blob # Nil /\ blob.content # <<>> /\ SnapshotParses(blob.content)
    THEN [ok |-> TRUE, stations |-> ParseSnapshot(blob.content), blob |-> blob,
          calls |-> <<>>, commits |-> <<>>, writes |-> 0]
    ELSE IF resp[K_StRecent].ok
         THEN LoadParse(resp[K_StRecent].body, <<K_StRecent>>, blob, resp)
    ELSE IF resp[K_StHist].ok
         THEN LoadParse(resp[K_StHist].body, <<K_StRecent, K_StHist>>, blob, resp)
    ELSE LoadRaise(<<K_StRecent, K_StHist>>, blob)

----------------------------------------------------------------------------
(* try_fetch_recent_zip, resolve_historical_zip_name, try_fetch_historical *)
(* _zip.  A historical file name is [sid |-> .., span |-> ..] (the station *)
(* id and the two dates in the name); the directory listing is the         *)
(* sequence of the names it links.                                         *)

HIST_TTL == 90 * 24 * 3600

K_Index == <<"hist_index", 0>>

MsgZip == "DWD ZIP nicht abrufbar (recent/historical)."

\* a response body of zero bytes
EmptyBytes == [kind |-> "empty"]

\* lines 415, 417: "not zip_bytes" is true of None and of zero bytes
NoBytes(b) == b = Nil \/ b = EmptyBytes

\* bytes or None
try_fetch_recent_zip(sid, resp) ==
    [bytes |-> IF resp[<<"recent_zip", sid>>].ok THEN resp[<<"recent_zip", sid>>].body
               ELSE Nil,
     calls |-> << <<"recent_zip", sid>> >>]

Matches(listing, sid) == {i \in 1..Len(listing) : listing[i].sid = sid}

\* line 355: the stored file name may be used
HistFresh(mrow, t) == mrow # Nil /\ (t - mrow.ts) < HIST_TTL

HistResult(raised, err, name, row, made, commits, nwrites) ==
    [raised |-> raised, err |-> err, name |-> name, row |-> row, calls |-> made,
     commits |-> commits, writes |-> nwrites]

\* lines 361-364: store the resolved name, then return it
HistStore_skip(sid, name, mrow, t, resp) ==
    HistResult(FALSE, "", name, mrow, <<K_Index>>, <<>>, 0)

HistStore(sid, name, mrow, t, resp) ==
    IF resp[K_CommitHist(sid)].ok
    THEN HistResult(FALSE, "", name, [zip_name |-> name, ts |-> t], <<K_Index>>,
                    <<K_CommitHist(sid)>>, 1)
    ELSE HistResult(TRUE, MsgDb, Nil, mrow, <<K_Index>>, <<K_CommitHist(sid)>>, 0)

\* mrow: the hist_zip_map row of sid (Nil when there is none)
resolve_historical_zip_name(sid, mrow, t, resp) ==
    IF HistFresh(mrow, t)
    THEN HistResult(FALSE, "", mrow.zip_name, mrow, <<>>, <<>>, 0)
    ELSE IF ~resp[K_Index].ok
    THEN HistResult(TRUE, MsgHttp, Nil, mrow, <<K_Index>>, <<>>, 0)
    ELSE IF Matches(resp[K_Index].body, sid) = {}
    THEN HistResult(FALSE, "", Nil, mrow, <<K_Index>>, <<>>, 0)
    ELSE HistStore(sid, resp[K_Index].body[Min(Matches(resp[K_Index].body, sid))],
                   mrow, t, resp)

try_fetch_historical_zip(sid, mrow, t, resp) ==
    LET n == resolve_historical_zip_name(sid, mrow, t, resp) IN
    IF n.raised \/ n.name = Nil
    THEN [raised |-> n.raised, err |-> n.err, bytes |-> Nil, row |-> n.row,
          calls |-> n.calls, commits |-> n.commits, writes |-> n.writes]
    ELSE [raised |-> FALSE, err |-> "",
          bytes |-> IF resp[<<"hist_zip", n.name>>].ok THEN resp[<<"hist_zip", n.name>>].body
                    ELSE Nil,
          row |-> n.row, calls |-> n.calls \o << <<"hist_zip", n.name>> >>,
          commits |-> n.commits, writes |-> n.writes]

----------------------------------------------------------------------------
(* compute_for_plz *)

FailRow(p, dayv, tb, msg) ==
    [plz |-> p, lat |-> Absent, lon |-> Absent, place |-> Absent,
     station_id |-> Absent, station_name |-> Absent, dist_km |-> Absent,
     day |-> dayv, tmean |-> Absent, tbase |-> <<Round2(tb)>>, hdd |-> Absent,
     ok |-> FALSE, status |-> msg]

\* the success row with the tier label fixed to "recent"
OkRow_recent(p, dayv, tb, g, n, source, tmean) ==
    [plz |-> p, lat |-> <<g.lat>>, lon |-> <<g.lon>>, place |-> g.label,
     station_id |-> <<n.st.sid>>, station_name |-> <<n.st.name, "recent">>,
     dist_km |-> <<n.dist>>, day |-> dayv, tmean |-> <<Round2(tmean)>>,
     tbase |-> <<Round2(tb)>>, hdd |-> <<Round2(compute_hdd(tmean, tb))>>,
     ok |-> TRUE, status |-> "OK"]

OkRow(p, dayv, tb, g, n, source, tmean) ==
    [plz |-> p, lat |-> <<g.lat>>, lon |-> <<g.lon>>, place |-> g.label,
     station_id |-> <<n.st.sid>>, station_name |-> <<n.st.name, source>>,
     dist_km |-> <<n.dist>>, day |-> dayv, tmean |-> <<Round2(tmean)>>,
     tbase |-> <<Round2(tb)>>, hdd |-> <<Round2(compute_hdd(tmean, tb))>>,
     ok |-> TRUE, status |-> "OK"]

Item(row, pcache, hmap, made, commits, nwrites) ==
    [row |-> row, plz_cache |-> pcache, hist_zip_map |-> hmap, calls |-> made,
     commits |-> commits, writes |-> nwrites]

\* line 415: the historical tier is tried
UseHistorical_always(recent_bytes) == TRUE

UseHistorical(recent_bytes) == NoBytes(recent_bytes)

\* pcache, hmap: the two tables; t: utcnow(); resp: the answer of each URL.
\* Returns the row and what the call left behind.
compute_for_plz(p, dayv, tb, cat, pcache, hmap, t, resp) ==
    LET g       == geocode_plz(p, pcache[p], t, resp)
        pcache2 == [pcache EXCEPT ![p] = g.row]
        day_int == ymd_to_int(dayv)
    IN
    IF ~g.ok
    THEN Item(FailRow(p, dayv, tb, g.err), pcache2, hmap, g.calls, g.commits, g.writes)
    ELSE
    LET n == nearest_station_for_date(g.lat, g.lon, day_int, cat) IN
    IF ~n.ok
    THEN Item(FailRow(p, dayv, tb, n.err), pcache2, hmap, g.calls, g.commits, g.writes)
    ELSE
    LET sid    == n.st.sid
        rec    == try_fetch_recent_zip(sid, resp)
        his    == try_fetch_historical_zip(sid, hmap[sid], t, resp)
        useHis == UseHistorical(rec.bytes)
        hmap2  == IF useHis THEN [hmap EXCEPT ![sid] = his.row] ELSE hmap
        made   == g.calls \o rec.calls \o (IF useHis THEN his.calls ELSE <<>>)
        cm     == g.commits \o (IF useHis THEN his.commits ELSE <<>>)
        nw     == g.writes + (IF useHis THEN his.writes ELSE 0)
        bytes  == IF useHis THEN his.bytes ELSE rec.bytes
        source == IF useHis THEN "historical" ELSE "recent"
    IN
    IF useHis /\ his.raised
    THEN Item(FailRow(p, dayv, tb, his.err), pcache2, hmap2, made, cm, nw)
    ELSE IF NoBytes(bytes)
    THEN Item(FailRow(p, dayv, tb, MsgZip), pcache2, hmap2, made, cm, nw)
    ELSE
    LET tm == read_tmk_from_zip(bytes, day_int) IN
    IF ~tm.ok THEN Item(FailRow(p, dayv, tb, tm.err), pcache2, hmap2, made, cm, nw)
    ELSE Item(OkRow(p, dayv, tb, g, n, source, tm.val), pcache2, hmap2, made, cm, nw)

----------------------------------------------------------------------------
(* Input domains *)

MaxRows == 2        \* data lines per archive
MaxStations == 3    \* stations per catalog in direct calls of the locator

Today == <<2024, 3, 1>>          \* dt.date.today()

D_0227 == <<2024, 2, 27>>
D_0228 == <<2024, 2, 28>>
D_0229 == <<2024, 2, 29>>
D_0302 == <<2024, 3, 2>>

ArchiveDates == {D_0228, D_0229, Today}

TmkTexts == { <<>>,
              <<"-", "9", "9", "9">>,
              <<"-", "5", ".", "0">>,
              <<"0", ".", "0">>,
              <<"7", ".", "5">>,
              <<"x">> }

Headers == { <<"MESS_DATUM", "TMK">>, <<"MESS_DATUM", "QN_3">> }

DataLines == {<<ymd_to_int(d), v>> : d \in ArchiveDates, v \in TmkTexts}
             \cup {<<ymd_to_int(D_0229)>>}

Archives ==
    {[kind |-> "notzip"], [kind |-> "zip", prod |-> FALSE, lines |-> <<>>],
     [kind |-> "zip", prod |-> TRUE, lines |-> <<>>]}
    \cup {[kind |-> "zip", prod |-> TRUE, lines |-> <<h>> \o body] :
             h \in Headers, body \in SeqsUpTo(DataLines, MaxRows)}

HddTemps == {-20000, -5000, 0, 7500, 17994, 17996, 18000, 18004, 18006, 25000, 25001}

idleReq ==
    /\ pc = "off" /\ endpoint = None /\ plz_list = <<>> /\ day = None /\ tbase = None
    /\ stations = <<>> /\ rows = <<>> /\ fatal_error = None /\ response = None
    /\ calls = <<>> /\ writes = 0
    /\ inputs = None /\ start = None /\ world = None

emptyCache ==
    /\ plz_cache = [p \in {} |-> None] /\ blob_cache = None
    /\ hist_zip_map = [s \in {} |-> None] /\ now = 0

----------------------------------------------------------------------------
(* The request handlers index() and export_csv()                           *)

Plz1 == <<"1">>
Plz2 == <<"2">>
Plzs == {Plz1, Plz2}
Sids == {1, 2}

\* query parameter plz_list, as lines
PlzTexts == { <<>>,
              << <<"x">> >>,
              << <<"1">> >>,
              << <<" ", "2">>, <<"2">> >>,
              << <<"1">>, <<"2">> >>,
              << <<"2">>, <<"x">>, <<"1", " ">>, <<"2">> >> }

\* query parameter day: a text YYYY<sep>MM<sep>DD, or Nil when not given
DayText(sep, y, m, d) == [sep |-> sep, y |-> y, m |-> m, d |-> d]

DayStrs == { Nil, DayText("-", 2024, 2, 29), DayText("-", 2024, 3, 2),
             DayText("/", 2024, 13, 40), DayText("-", 2023, 2, 29) }

\* query parameter tbase
TbaseStrs == { <<"1", "8", ".", "0">>, <<"1", "8", ",", "0", "0", "4">>, <<"a", "b">> }

\* float(tbase_str.replace(",", "."))
ParseTbase(txt) ==
    LET t == [i \in 1..Len(txt) |-> IF txt[i] = "," THEN "." ELSE txt[i]]
    IN IF IsFloatText(t) THEN Ok(FloatOf(t)) ELSE Err("ValueError")

\* lines 435-436 and 475: the day text the handler parses
DayStrOf(ep, d) ==
    IF d # Nil THEN d
    ELSE IF ep = "index"
         THEN LET dd == DaysBefore(Today, 3) IN DayText("-", dd[1], dd[2], dd[3])
         ELSE DayText("", 0, 0, 0)

MsgDay   == "Datum muss im Format YYYY-MM-DD sein."
MsgTbase == "Tbase muss eine Zahl sein (z.B. 18.0)."
MsgNoPlz == "Bitte mindestens eine PLZ angeben."

\* ---- what the upstream services may answer

GeoItem(p) ==
    IF p = Plz1
    THEN [lat |-> 0, lon |-> 0, place |-> "Berlin", state |-> "", display_name |-> "d1"]
    ELSE [lat |-> 2000, lon |-> 0, place |-> "", state |-> "", display_name |-> "d2"]

GeoAnswers(p) == {Fail, Body(<<>>), Body(<<GeoItem(p)>>)}

T_any  == <<"x">>
T_0228 == <<"2", "0", "2", "4", "0", "2", "2", "8">>
T_0229 == <<"2", "0", "2", "4", "0", "2", "2", "9">>

Line_hdr   == << <<"S">> >>
Line_st1   == << <<"0", "0", "0", "0", "1">>, T_any, T_any, <<"5">>, <<"0">>, <<"0">>, "A" >>
Line_st2   == << <<"0", "0", "0", "0", "2">>, T_0228, T_0229, <<"5">>, <<"2">>, <<"0">>, "B" >>
Line_short == << <<"3">>, T_any >>
Line_badid == << <<"x">>, T_any, T_any, <<"5">>, <<"0">>, <<"0">>, "C" >>
Line_badfl == << <<"4">>, T_any, T_any, <<"5">>, <<"x">>, <<"0">>, "D" >>

Text_std   == <<Line_hdr, Line_st1, <<>>, Line_short, Line_badid, Line_st2>>
Text_empty == <<Line_hdr>>
Text_badfl == <<Line_hdr, Line_st1, Line_badfl>>

StationsRecentAnswers == {Fail, Body(Text_std), Body(Text_empty), Body(Text_badfl)}
StationsHistAnswers   == {Fail, Body(Text_std)}

Zip(body) == [kind |-> "zip", prod |-> TRUE, lines |-> << <<"MESS_DATUM", "TMK">> >> \o body]

A_full == Zip(<< <<ymd_to_int(D_0229), <<"7", ".", "5">> >>,
                 <<ymd_to_int(D_0302), <<"7", ".", "5">> >>,
                 <<ymd_to_int(D_0227), <<"-", "9", "9", "9">> >> >>)
A_neg  == Zip(<< <<ymd_to_int(D_0228), <<"2", "5", ".", "0">> >>,
                 <<ymd_to_int(D_0229), <<"-", "5", ".", "0">> >>,
                 <<ymd_to_int(D_0227), <<"0", ".", "0">> >> >>)

ZipAnswers == {Fail, Body(EmptyBytes), Body(A_full), Body(A_neg)}

CommitAnswers == {Fail, Committed}

HistName(sid) == [sid |-> sid, span |-> "a"]

IndexAnswers == {Fail, Body(<<HistName(2)>>), Body(<<HistName(2), HistName(1)>>)}

Keys == {<<"geo1", p>> : p \in Plzs} \cup {<<"geo2", p>> : p \in Plzs}
        \cup {K_StRecent, K_StHist, K_Index}
        \cup {<<"recent_zip", sid>> : sid \in Sids}
        \cup {<<"hist_zip", HistName(sid)>> : sid \in Sids}
        \cup {K_CommitPlz(p) : p \in Plzs} \cup {K_CommitBlob}
        \cup {K_CommitHist(sid) : sid \in Sids}

AnswersOf(k) ==
    CASE k[1] \in {"geo1", "geo2"}       -> GeoAnswers(k[2])
      [] k[1] = "stations_recent"        -> StationsRecentAnswers
      [] k[1] = "stations_hist"          -> StationsHistAnswers
      [] k[1] = "hist_index"             -> IndexAnswers
      [] k[1] \in {"recent_zip", "hist_zip"} -> ZipAnswers
      [] k[1] \in {"commit_plz", "commit_blob", "commit_hist"} -> CommitAnswers

\* ---- the cache tables a request may find

Clock0 == 200 * 24 * 3600

PlzRowOf(p, ts) ==
    [lat |-> GeoItem(p).lat, lon |-> GeoItem(p).lon, place |-> LabelOf(GeoItem(p)),
     ts |-> ts]

StdCatalog == ParseStationLines(Tail(Text_std))

CacheCold ==
    [plz_cache |-> [p \in Plzs |-> Nil], blob_cache |-> Nil,
     hist_zip_map |-> [s \in Sids |-> Nil]]

CacheWarm(age_plz, age_hist) ==
    [plz_cache |-> [p \in Plzs |-> PlzRowOf(p, Clock0 - age_plz)],
     blob_cache |-> [content |-> Snapshot(StdCatalog)],
     hist_zip_map |-> [s \in Sids |-> [zip_name |-> HistName(s), ts |-> Clock0 - age_hist]]]

CachePartial ==
    [plz_cache |-> [p \in Plzs |-> IF p = Plz1 THEN PlzRowOf(p, Clock0 - 3600) ELSE Nil],
     blob_cache |-> [content |-> Snapshot(StdCatalog)],
     hist_zip_map |-> [s \in Sids |-> IF s = 1 THEN Nil
                                      ELSE [zip_name |-> HistName(s), ts |-> Clock0 - 3600]]]

CacheStates == {CacheCold, CacheWarm(3600, 3600), CacheWarm(PLZ_TTL, HIST_TTL), CachePartial}

Init ==
    /\ \E c \in CacheStates :
          /\ plz_cache = c.plz_cache
          /\ blob_cache = c.blob_cache
          /\ hist_zip_map = c.hist_zip_map
    /\ now = Clock0
    /\ pc = "idle" /\ endpoint = None /\ inputs = None /\ start = None
    /\ plz_list = <<>> /\ day = None /\ tbase = None /\ stations = <<>>
    /\ rows = <<>> /\ fatal_error = None /\ response = None
    /\ calls = <<>> /\ writes = 0
    /\ world = [k \in Keys |-> Unset]
    /\ fn = "none" /\ args = None /\ ret = None /\ last_ok = None

\* The handler up to the point where it either answers at once or goes on to
\* load the station catalog (index: lines 434-458, export_csv: 474-490)
\* Validate without the "if not fatal_error" guard of line 455: the defaults
\* set at lines 447 and 453 are processed
Validate_unguarded(ep, q) ==
    LET d  == fromisoformat(DayStrOf(ep, q.day))
        tb == ParseTbase(q.tbase)
        pl == parse_plz_list(q.plz_list)
    IN IF pl = <<>>
       THEN [go |-> FALSE, response |-> "200", fatal_error |-> MsgNoPlz]
       ELSE [go |-> TRUE, day |-> IF d.ok THEN d.val ELSE Today,
             tbase |-> IF tb.ok THEN tb.val ELSE 18000, plz_list |-> pl]

Validate(ep, q) ==
    LET d  == fromisoformat(DayStrOf(ep, q.day))
        tb == ParseTbase(q.tbase)
        pl == parse_plz_list(q.plz_list)
    IN
    IF ep = "index"
    THEN IF q.plz_list = <<>>
         THEN [go |-> FALSE, response |-> "200", fatal_error |-> None]
         ELSE IF ~d.ok
         THEN [go |-> FALSE, response |-> "200", fatal_error |-> MsgDay]
         ELSE IF ~tb.ok
         THEN [go |-> FALSE, response |-> "200", fatal_error |-> MsgTbase]
         ELSE IF pl = <<>>
         THEN [go |-> FALSE, response |-> "200", fatal_error |-> MsgNoPlz]
         ELSE [go |-> TRUE, day |-> d.val, tbase |-> tb.val, plz_list |-> pl]
    ELSE IF ~d.ok \/ ~tb.ok \/ pl = <<>>
         THEN [go |-> FALSE, response |-> "400", fatal_error |-> None]
         ELSE [go |-> TRUE, day |-> d.val, tbase |-> tb.val, plz_list |-> pl]

Request ==
    /\ pc = "idle"
    /\ \E ep \in {"index", "export"}, txt \in PlzTexts, d \in DayStrs, tb \in TbaseStrs :
          LET q == [plz_list |-> txt, day |-> d, tbase |-> tb]
              v == Validate(ep, q)
          IN /\ endpoint' = ep
             /\ inputs' = q
             /\ start' = [plz_cache |-> plz_cache, blob_cache |-> blob_cache,
                          hist_zip_map |-> hist_zip_map]
             /\ IF v.go
                THEN /\ pc' = "load"
                     /\ day' = v.day /\ tbase' = v.tbase /\ plz_list' = v.plz_list
                     /\ UNCHANGED <<fatal_error, response>>
                ELSE /\ pc' = "done"
                     /\ fatal_error' = v.fatal_error /\ response' = v.response
                     /\ UNCHANGED <<day, tbase, plz_list>>
    /\ UNCHANGED <<cacheVars, stations, rows, calls, writes, world, fnVars>>

\* What the URLs answered and how the commits ended so far; one not reached
\* yet is read as a failure, which is only ever looked at to find the first
\* call still waiting
Known == [k \in Keys |-> IF world[k] = Unset THEN Fail ELSE world[k]]

Pending(made) ==
    LET idx == {i \in 1..Len(made) : world[made[i]] = Unset}
    IN IF idx = {} THEN {} ELSE {made[Min(idx)]}

\* the http_get calls and the commits of a call, each in its order
Asked(r) == r.calls \o r.commits

CurLoad == load_dwd_stations(blob_cache, Known)

CurItem == compute_for_plz(plz_list[Len(rows) + 1], day, tbase, stations, plz_cache,
                           hist_zip_map, now, Known)

\* http_get (lines 247-251) or a commit called by load_dwd_stations or by the
\* current turn of the loop: the service answers or the call raises, the
\* statement commits or raises
Upstream ==
    /\ pc \in {"load", "items"}
    /\ pc = "items" => Len(rows) < Len(plz_list)
    /\ \E k \in Pending(IF pc = "load" THEN Asked(CurLoad) ELSE Asked(CurItem)) :
          \E a \in AnswersOf(k) : world' = [world EXCEPT ![k] = a]
    /\ UNCHANGED <<cacheVars, pc, endpoint, plz_list, day, tbase, stations, rows,
                   fatal_error, response, calls, writes, inputs, start, fnVars>>

\* stations = load_dwd_stations() (lines 460, 492); an exception leaves the
\* handler and the framework answers 500
Loaded(r) ==
    /\ Pending(Asked(r)) = {}
    /\ blob_cache' = r.blob
    /\ calls' = calls \o r.calls
    /\ writes' = writes + r.writes
    /\ IF r.ok
       THEN /\ stations' = r.stations /\ pc' = "items"
            /\ UNCHANGED response
       ELSE /\ pc' = "done" /\ response' = "500"
            /\ UNCHANGED stations

LoadStations ==
    /\ pc = "load"
    /\ Loaded(CurLoad)
    /\ UNCHANGED <<plz_cache, hist_zip_map, now, endpoint, plz_list, day, tbase, rows,
                   fatal_error, inputs, start, world, fnVars>>

\* One turn of the loop over plz_list (lines 461-462, 497-499)
Computed(r) ==
    /\ Pending(Asked(r)) = {}
    /\ rows' = Append(rows, r.row)
    /\ plz_cache' = r.plz_cache
    /\ hist_zip_map' = r.hist_zip_map
    /\ calls' = calls \o r.calls
    /\ writes' = writes + r.writes

ComputeForPlz ==
    /\ pc = "items" /\ Len(rows) < Len(plz_list)
    /\ Computed(CurItem)
    /\ UNCHANGED <<blob_cache, now, pc, endpoint, plz_list, day, tbase, stations,
                   fatal_error, response, inputs, start, world, fnVars>>

\* The rendered page or the CSV file (lines 464-470, 501-503)
Respond ==
    /\ pc = "items" /\ Len(rows) = Len(plz_list)
    /\ pc' = "done" /\ response' = "200"
    /\ UNCHANGED <<cacheVars, endpoint, plz_list, day, tbase, stations, rows,
                   fatal_error, calls, writes, inputs, start, world, fnVars>>

Next == Request \/ Upstream \/ LoadStations \/ ComputeForPlz \/ Respond

Spec == Init /\ [][Next]_vars

----------------------------------------------------------------------------
(* Direct calls of compute_hdd *)

InitHdd ==
    /\ idleReq /\ emptyCache
    /\ fn = "none" /\ ret = None /\ last_ok = None
    /\ args \in [tmean : HddTemps, tbase : HddTemps]

CallHdd ==
    /\ pc = "off" /\ fn = "none" /\ DOMAIN args = {"tmean", "tbase"}
    /\ fn' = "compute_hdd"
    /\ ret' = compute_hdd(args.tmean, args.tbase)
    /\ UNCHANGED <<args, last_ok, cacheVars, reqVars>>

----------------------------------------------------------------------------
(* Direct calls of read_tmk_from_zip, with the day converted as in         *)
(* compute_for_plz (lines 411, 420)                                        *)

InitExtract ==
    /\ idleReq /\ emptyCache
    /\ fn = "none" /\ ret = None /\ last_ok = None
    /\ args \in [zip_bytes : Archives, day : ArchiveDates]

CallExtract ==
    /\ pc = "off" /\ fn = "none" /\ DOMAIN args = {"zip_bytes", "day"}
    /\ fn' = "read_tmk_from_zip"
    /\ ret' = read_tmk_from_zip(args.zip_bytes, ymd_to_int(args.day))
    /\ UNCHANGED <<args, last_ok, cacheVars, reqVars>>

SpecExtract == InitExtract /\ [][CallExtract]_vars

----------------------------------------------------------------------------
(* Direct calls of nearest_station_for_date *)

StationSet ==
    { Station(1, 0, 0, 0, 0, "A"),
      Station(2, 0, 20240228, 1, 0, "B"),
      Station(3, 20240301, 0, 3, 0, "C"),
      Station(4, 20240228, 20240229, 1, 0, "D"),
      Station(5, 20240302, 99991231, 2, 0, "E") }

QueryPoints == {<<0, 0>>, <<2, 0>>}

InitNearest ==
    /\ idleReq /\ emptyCache
    /\ fn = "none" /\ ret = None /\ last_ok = None
    /\ args \in [pt : QueryPoints, day : ArchiveDates,
                 stations : SeqsUpTo(StationSet, MaxStations)]

CallNearest ==
    /\ pc = "off" /\ fn = "none" /\ DOMAIN args = {"pt", "day", "stations"}
    /\ fn' = "nearest_station_for_date"
    /\ ret' = nearest_station_for_date(args.pt[1], args.pt[2], ymd_to_int(args.day),
                                       args.stations)
    /\ UNCHANGED <<args, last_ok, cacheVars, reqVars>>

SpecNearest == InitNearest /\ [][CallNearest]_vars

----------------------------------------------------------------------------
(* Direct calls of geocode_plz on one cache table while time passes *)

MaxTicks == 4

TickStep == 15 * 24 * 3600

GeoItemB(p) ==
    [lat |-> GeoItem(p).lat + 1, lon |-> 5, place |-> "", state |-> "BY",
     display_name |-> "d"]

GeoAnswers2(p) == GeoAnswers(p) \cup {Body(<<GeoItemB(p)>>)}

GeoRet(r) ==
    IF r.ok THEN [ok |-> TRUE, lat |-> r.lat, lon |-> r.lon, label |-> r.label]
    ELSE [ok |-> FALSE, err |-> r.err]

InitGeocode ==
    /\ idleReq
    /\ plz_cache = [p \in Plzs |-> Nil] /\ blob_cache = None
    /\ hist_zip_map = [s \in {} |-> None] /\ now = 0
    /\ fn = "none" /\ args = None /\ ret = None
    /\ last_ok = [p \in Plzs |-> Nil]

CallGeocode ==
    /\ pc = "off" /\ fn \in {"none", "geocode_plz"} /\ DOMAIN plz_cache = Plzs
    /\ \E p \in Plzs : \E g1 \in GeoAnswers2(p), g2 \in GeoAnswers2(p), c \in CommitAnswers :
          LET resp == [k \in Keys |-> IF k = <<"geo1", p>> THEN g1
                                      ELSE IF k = <<"geo2", p>> THEN g2
                                      ELSE IF k = K_CommitPlz(p) THEN c ELSE Fail]
              r    == geocode_plz(p, plz_cache[p], now, resp)
          IN /\ fn' = "geocode_plz"
             /\ args' = [plz |-> p]
             /\ ret' = GeoRet(r)
             /\ plz_cache' = [plz_cache EXCEPT ![p] = r.row]
             /\ calls' = r.calls
             /\ writes' = r.writes
             /\ last_ok' = IF r.ok THEN [last_ok EXCEPT ![p] = [ret |-> GeoRet(r), at |-> now]]
                           ELSE last_ok
    /\ UNCHANGED <<blob_cache, hist_zip_map, now, pc, endpoint, plz_list, day, tbase,
                   stations, rows, fatal_error, response, inputs, start, world>>

Tick ==
    /\ pc = "off" /\ DOMAIN plz_cache = Plzs
    /\ now < MaxTicks * TickStep
    /\ now' = now + TickStep
    /\ UNCHANGED <<plz_cache, blob_cache, hist_zip_map, reqVars, fnVars>>

SpecGeocode == InitGeocode /\ [][CallGeocode \/ Tick]_vars

----------------------------------------------------------------------------
(* Two invocations of geocode_plz running at the same time (the server is  *)
(* threaded; every call opens its own connection, line 260).  Each goes    *)
(* through the statements of lines 261-285 one at a time: the SELECT and   *)
(* the clock, the first query, the second query, the INSERT OR REPLACE     *)
(* with its commit, which sqlite runs as one transaction.  The geocoder    *)
(* answers a URL the same way to both.                                     *)

Procs == {1, 2}

\* line 282: INSERT OR REPLACE puts the new row in the place of the old one
Upsert_merge(old, new) ==
    IF old = Nil THEN new ELSE [old EXCEPT !.lat = new.lat, !.lon = new.lon]

Upsert(old, new) == new

StaleRow(p) ==
    [lat |-> GeoItemB(p).lat, lon |-> GeoItemB(p).lon, place |-> LabelOf(GeoItemB(p)),
     ts |-> 0]

Invocation(p) ==
    [pc |-> "select", plz |-> p, seen |-> Nil, t |-> 0, item |-> Nil, commit |-> Unset,
     wrote |-> Nil]

InitRace ==
    /\ pc = "off" /\ endpoint = None /\ plz_list = <<>> /\ day = None /\ tbase = None
    /\ stations = <<>> /\ rows = <<>> /\ fatal_error = None /\ response = None
    /\ calls = <<>> /\ writes = 0 /\ inputs = None
    /\ world = [k \in Keys |-> Unset]
    /\ now = PLZ_TTL
    /\ plz_cache \in {[p \in Plzs |-> Nil], [p \in Plzs |-> StaleRow(p)]}
    /\ start = [plz_cache |-> plz_cache]
    /\ blob_cache = None /\ hist_zip_map = [s \in {} |-> None]
    /\ fn = "race"
    /\ \E p1 \in Plzs, p2 \in Plzs : args = <<Invocation(p1), Invocation(p2)>>
    /\ ret = [q \in Procs |-> Nil]
    /\ last_ok = [p \in Plzs |-> 0]

Racing == pc = "off" /\ fn = "race"

\* lines 261-265: read the row and the clock; a young row is returned
SelectRow(q) ==
    /\ Racing /\ args[q].pc = "select"
    /\ LET p   == args[q].plz
           row == plz_cache[p]
       IN IF PlzFresh(row, now)
          THEN /\ args' = [args EXCEPT ![q].pc = "done", ![q].seen = row, ![q].t = now]
               /\ ret' = [ret EXCEPT ![q] = [ok |-> TRUE, lat |-> row.lat, lon |-> row.lon,
                                              label |-> row.place]]
          ELSE /\ args' = [args EXCEPT ![q].pc = "query1", ![q].seen = row, ![q].t = now]
               /\ UNCHANGED ret
    /\ UNCHANGED <<cacheVars, reqVars, fn, last_ok>>

\* lines 268-274: one of the two queries
Query(q, at, kind, onEmpty) ==
    /\ Racing /\ args[q].pc = at
    /\ LET k == <<kind, args[q].plz>> IN
       \E a \in (IF world[k] = Unset THEN GeoAnswers2(args[q].plz) ELSE {world[k]}) :
          /\ world' = [world EXCEPT ![k] = a]
          /\ calls' = Append(calls, k)
          /\ IF ~a.ok
             THEN /\ args' = [args EXCEPT ![q].pc = "done"]
                  /\ ret' = [ret EXCEPT ![q] = [ok |-> FALSE, err |-> MsgHttp]]
             ELSE IF a.body # <<>>
             THEN /\ args' = [args EXCEPT ![q].pc = "upsert", ![q].item = a.body[1]]
                  /\ UNCHANGED ret
             ELSE IF onEmpty = "raise"
             THEN /\ args' = [args EXCEPT ![q].pc = "done"]
                  /\ ret' = [ret EXCEPT ![q] = [ok |-> FALSE, err |-> MsgGeocode]]
             ELSE /\ args' = [args EXCEPT ![q].pc = onEmpty]
                  /\ UNCHANGED ret
    /\ UNCHANGED <<cacheVars, pc, endpoint, plz_list, day, tbase, stations, rows,
                   fatal_error, response, writes, inputs, start, fn, last_ok>>

Query1(q) == Query(q, "query1", "geo1", "query2")

Query2(q) == Query(q, "query2", "geo2", "raise")

\* lines 276-285: build the row, INSERT OR REPLACE and commit, return
UpsertRow(q) ==
    /\ Racing /\ args[q].pc = "upsert"
    /\ LET p    == args[q].plz
           item == args[q].item
           new  == [lat |-> item.lat, lon |-> item.lon, place |-> LabelOf(item),
                    ts |-> args[q].t]
       IN \E c \in CommitAnswers :
            IF c.ok
            THEN /\ plz_cache' = [plz_cache EXCEPT ![p] = Upsert(plz_cache[p], new)]
                 /\ args' = [args EXCEPT ![q].pc = "done", ![q].commit = c, ![q].wrote = new]
                 /\ ret' = [ret EXCEPT ![q] = [ok |-> TRUE, lat |-> item.lat,
                                                lon |-> item.lon, label |-> LabelOf(item)]]
                 /\ writes' = writes + 1
                 /\ last_ok' = [last_ok EXCEPT ![p] = q]
            ELSE /\ args' = [args EXCEPT ![q].pc = "done", ![q].commit = c]
                 /\ ret' = [ret EXCEPT ![q] = [ok |-> FALSE, err |-> MsgDb]]
                 /\ UNCHANGED <<plz_cache, writes, last_ok>>
    /\ UNCHANGED <<blob_cache, hist_zip_map, now, pc, endpoint, plz_list, day, tbase,
                   stations, rows, fatal_error, response, calls, inputs, start, world, fn>>

Select  == \E q \in Procs : SelectRow(q)
First   == \E q \in Procs : Query1(q)
Second  == \E q \in Procs : Query2(q)
Store   == \E q \in Procs : UpsertRow(q)

NextRace == Select \/ First \/ Second \/ Store \/ Tick

SpecRace == InitRace /\ [][NextRace]_vars

\* compute_hdd called directly and by the request handlers
InitExtractRows == Init \/ InitExtract

\* read_tmk_from_zip called directly and by the request handlers
SpecExtractRows == InitExtractRows /\ [][Next \/ CallExtract]_vars

InitHddRows == Init \/ InitHdd

SpecHddRows == InitHddRows /\ [][Next \/ CallHdd]_vars

----------------------------------------------------------------------------
(* What the specification calls a valid measurement, and its fallback      *)
(* window (section 4.6)                                                    *)

FallbackDays == 7

SpecValidTmk(v) == IsFloatText(v) /\ FloatOf(v) > -900000

WellFormed(z) ==
    /\ z.kind = "zip" /\ z.prod /\ z.lines # <<>>
    /\ {"MESS_DATUM", "TMK"} \subseteq Range(z.lines[1])

\* the valid temperatures an archive holds for a date
ValidValuesOn(z, d) ==
    {FloatOf(z.lines[i][2]) : i \in {j \in 2..Len(z.lines) :
        /\ Len(z.lines[j]) >= 2
        /\ z.lines[j][1] = ymd_to_int(d)
        /\ SpecValidTmk(z.lines[j][2])}}

----------------------------------------------------------------------------
(* Claims *)

ExtractDone == fn = "read_tmk_from_zip"

\* C5 (as claimed): when the target date holds no valid value but a day of the
\* N days before it does, extraction succeeds with the value of the most recent
\* such day.
C5_BackwardFallback ==
    (ExtractDone /\ WellFormed(args.zip_bytes)
       /\ ValidValuesOn(args.zip_bytes, args.day) = {}) =>
        LET z     == args.zip_bytes
            backs == {b \in 1..FallbackDays : ValidValuesOn(z, DaysBefore(args.day, b)) # {}}
        IN backs # {} =>
              (ret.ok /\ ret.val \in ValidValuesOn(z, DaysBefore(args.day, Min(backs))))

\* C6 (as claimed): an archive holding a row for the exact target date with a
\* valid temperature yields that row's value.
C6_ExactDateWins ==
    (ExtractDone /\ WellFormed(args.zip_bytes)
       /\ ValidValuesOn(args.zip_bytes, args.day) # {}) =>
        (ret.ok /\ ret.val \in ValidValuesOn(args.zip_bytes, args.day))

\* C7: a successful extraction never carries a value at or below -900, and its
\* value is the parsed text of a row of the target date whose TMK field is
\* neither empty, unparseable nor a sentinel; no successful row of a request
\* carries a mean temperature at or below -900.
C7_NoSentinelReturned ==
    /\ (ExtractDone /\ ret.ok) =>
          /\ ret.val > -900000
          /\ ret.val \in ValidValuesOn(args.zip_bytes, args.day)
    /\ pc \in {"items", "done"} =>
          \A i \in 1..Len(rows) : rows[i].ok => rows[i].tmean[1] > -900000

\* C7 witness: the target date's row holds the sentinel -999 and extraction failed
C7_Witness ==
    /\ ExtractDone /\ ~ret.ok /\ WellFormed(args.zip_bytes)
    /\ \E i \in 2..Len(args.zip_bytes.lines) :
          args.zip_bytes.lines[i] = <<ymd_to_int(args.day), <<"-", "9", "9", "9">> >>

NearestDone == fn = "nearest_station_for_date"

\* a validity window [von, bis] containing the date, a zero bound being open
InWindow(s, d) == (s.von = 0 \/ s.von <= d) /\ (s.bis = 0 \/ d <= s.bis)

\* C9: whenever some station of the catalog is valid on the date, the station
\* returned is valid on the date; a station whose window excludes the date is
\* returned only when no station of the catalog is valid on it.
C9_DateWindowRespected ==
    NearestDone =>
        LET d == ymd_to_int(args.day) IN
        /\ (\E i \in 1..Len(args.stations) : InWindow(args.stations[i], d))
              => (ret.ok /\ InWindow(ret.st, d))
        /\ (ret.ok /\ ~InWindow(ret.st, d))
              => (\A i \in 1..Len(args.stations) : ~InWindow(args.stations[i], d))

\* C9 witness: a station outside its window lies strictly nearer than the valid
\* station that was returned
C9_Witness ==
    /\ NearestDone /\ ret.ok /\ InWindow(ret.st, ymd_to_int(args.day))
    /\ \E i \in 1..Len(args.stations) :
          /\ ~InWindow(args.stations[i], ymd_to_int(args.day))
          /\ haversine_km(args.pt[1], args.pt[2], args.stations[i].lat, args.stations[i].lon)
               < ret.dist

----------------------------------------------------------------------------
(* Claims about the request handlers *)

Handling == pc \in {"load", "items", "done"}

\* both query parameters parse
InputsValid ==
    /\ fromisoformat(DayStrOf(endpoint, inputs.day)).ok
    /\ ParseTbase(inputs.tbase).ok

\* the postal codes of the submitted text and where each occurs first
Codes(text) == {DigitsOf(text[i]) : i \in 1..Len(text)} \ {<<>>}

FirstAt(text, c) == Min({i \in 1..Len(text) : DigitsOf(text[i]) = c})

\* the row the postal code gets when it is processed alone, from the cache
\* tables as the request found them and the same upstream answers
SoloRow(p) ==
    compute_for_plz(p, day, tbase, stations, start.plz_cache, start.hist_zip_map,
                    now, Known).row

\* geocoding fails for p in this request: no fresh cache row, and the service
\* raised or found nothing in both queries
GeocodeFails(p) ==
    /\ ~(start.plz_cache[p] # Nil /\ now - start.plz_cache[p].ts < PLZ_TTL)
    /\ world[<<"geo1", p>>] # Unset
    /\ \/ world[<<"geo1", p>>] = Fail
       \/ /\ world[<<"geo1", p>>] = Body(<<>>)
          /\ world[<<"geo2", p>>] \in {Fail, Body(<<>>)}

\* C1: once the catalog is loaded, the rows are one per distinct postal code of
\* the input, in first-occurrence order; each row is the one its postal code
\* gets when processed alone (no other item's failure changes it); a failed
\* item has ok = FALSE and a status text other than "OK" in its own row.
C1_OneRowPerPlz ==
    (pc \in {"items", "done"} /\ InputsValid /\ response # "500") =>
        LET text == inputs.plz_list IN
        /\ \A i \in 1..Len(rows) : rows[i].plz \in Codes(text)
        /\ \A i, j \in 1..Len(rows) :
              i < j => FirstAt(text, rows[i].plz) < FirstAt(text, rows[j].plz)
        /\ pc = "done" => /\ Len(rows) = Cardinality(Codes(text))
                          /\ {rows[i].plz : i \in 1..Len(rows)} = Codes(text)
        /\ \A i \in 1..Len(rows) :
              /\ rows[i] = SoloRow(rows[i].plz)
              /\ rows[i].ok <=> rows[i].status = "OK"
              /\ GeocodeFails(rows[i].plz)
                    => (~rows[i].ok /\ rows[i].status \in {MsgHttp, MsgGeocode})

\* C1 witness: a finished batch of two postal codes, the first failed in
\* geocoding, the second succeeded
C1_Witness ==
    /\ pc = "done" /\ Len(rows) = 2
    /\ GeocodeFails(rows[1].plz) /\ ~rows[1].ok
    /\ rows[2].ok

\* C2 (as claimed): when the catalog cannot be loaded the request still answers
\* with one failed row per postal code.
C2_CatalogFailureAsRows ==
    (/\ pc = "done"
     /\ plz_list # <<>>
     /\ (start.blob_cache = Nil \/ start.blob_cache.content = <<>>)
     /\ world[K_StRecent] = Fail /\ world[K_StHist] = Fail) =>
        /\ response = "200"
        /\ Len(rows) = Len(plz_list)
        /\ \A i \in 1..Len(rows) : rows[i].plz = plz_list[i] /\ ~rows[i].ok

\* C3 (as claimed): a target date later than today never yields a successful row.
C3_FutureDateRejected ==
    (/\ pc = "done" /\ response = "200" /\ plz_list # <<>>
     /\ ymd_to_int(day) > ymd_to_int(Today)) =>
        \A i \in 1..Len(rows) : ~rows[i].ok /\ rows[i].hdd = Absent

\* C4: a date or base temperature that does not parse ends the request at once:
\* no row, no http_get call, no cache write, the cache tables as they were;
\* export_csv answers 400, and index, when a postal-code text was submitted,
\* renders the one error message (the date's when the date is wrong).
C4_InvalidInputNoProcessing ==
    (Handling /\ ~InputsValid) =>
        /\ pc = "done"
        /\ rows = <<>> /\ calls = <<>> /\ writes = 0
        /\ \A k \in Keys : world[k] = Unset
        /\ plz_cache = start.plz_cache /\ blob_cache = start.blob_cache
        /\ hist_zip_map = start.hist_zip_map
        /\ endpoint = "export" => response = "400"
        /\ (endpoint = "index" /\ inputs.plz_list # <<>>) =>
              /\ response = "200"
              /\ fatal_error =
                    IF fromisoformat(DayStrOf(endpoint, inputs.day)).ok
                    THEN MsgTbase ELSE MsgDay

\* C4 witness: index was asked for two postal codes with the date 2024/13/40
C4_Witness ==
    /\ pc = "done" /\ endpoint = "index"
    /\ inputs.day = DayText("/", 2024, 13, 40)
    /\ Cardinality(Codes(inputs.plz_list)) = 2
    /\ fatal_error = MsgDay /\ calls = <<>>

----------------------------------------------------------------------------
(* Claims about compute_hdd *)

\* h is max(0, tb - tm) rounded to two decimals
HddContract(h, tm, tb) ==
    /\ h >= 0
    /\ h % 10 = 0
    /\ h - Max(0, tb - tm) \in -5..5
    /\ tm >= tb => h = 0
    /\ h = 0 => tb - tm <= 5

\* C8: compute_hdd(tmean, tbase) is max(0, tbase - tmean) rounded to two
\* decimals, never negative, and 0 exactly when tmean >= tbase up to rounding;
\* the hdd field of a successful row is that value for the row's tmean and the
\* request's tbase.
C8_HddValue ==
    /\ fn = "compute_hdd" => HddContract(ret, args.tmean, args.tbase)
    /\ pc \in {"items", "done"} =>
          \A i \in 1..Len(rows) :
              rows[i].ok => /\ Len(rows[i].hdd) = 1
                            /\ HddContract(rows[i].hdd[1], rows[i].tmean[1], tbase)

\* C8 witness: a mean temperature above the base temperature gave 0
C8_Witness ==
    /\ fn = "compute_hdd" /\ args.tmean > args.tbase /\ ret = 0

----------------------------------------------------------------------------
(* Claims about geocode_plz *)

\* the step is a call of geocode_plz for p (the clock stands still in it)
GeocodeStep(p) == now' = now /\ fn' = "geocode_plz" /\ args'.plz = p

\* C10 (as claimed): a call made less than 30 days after the previous call for
\* the postal code succeeded returns what that call returned, without any
\* http_get call and without touching the cache row; a call that finds a row 30
\* days old or older asks the service again and upserts the row.
C10_AsClaimed ==
    [][\A p \in Plzs : GeocodeStep(p) =>
          /\ (last_ok[p] # Nil /\ now - last_ok[p].at < PLZ_TTL) =>
                /\ ret' = last_ok[p].ret
                /\ calls' = <<>>
                /\ plz_cache' = plz_cache
          /\ (plz_cache[p] # Nil /\ now - plz_cache[p].ts >= PLZ_TTL) =>
                /\ calls' # <<>>
                /\ plz_cache'[p].ts = now]_vars

\* C10 (amended): a call that finds a cache row younger than 30 days returns
\* what the last successful call returned, without any http_get call and
\* without touching the row; a call that finds a row 30 days old or older asks
\* the service again (the postal-code query first) and, when that yields a
\* result, upserts the row with what it returns and the current time; when it
\* yields none, the old row stays.
C10_CacheWindow ==
    [][\A p \in Plzs : GeocodeStep(p) =>
          /\ (plz_cache[p] # Nil /\ now - plz_cache[p].ts < PLZ_TTL) =>
                /\ last_ok[p] # Nil
                /\ ret' = last_ok[p].ret
                /\ calls' = <<>> /\ writes' = 0
                /\ plz_cache' = plz_cache
          /\ (plz_cache[p] # Nil /\ now - plz_cache[p].ts >= PLZ_TTL) =>
                /\ calls' # <<>> /\ calls'[1] = <<"geo1", p>>
                /\ ret'.ok => plz_cache'[p] = [lat |-> ret'.lat, lon |-> ret'.lon,
                                               place |-> ret'.label, ts |-> now]
                /\ ~ret'.ok => plz_cache' = plz_cache]_vars

\* C10 witness: a call answered from a cache row written 15 days before, while
\* the service would have answered otherwise
C10_Witness ==
    /\ fn = "geocode_plz" /\ ret.ok /\ calls = <<>>
    /\ plz_cache[args.plz] # Nil
    /\ now - plz_cache[args.plz].ts = TickStep

----------------------------------------------------------------------------
(* Claims about cache writes *)

\* C11 (as claimed): a commit that raises never fails the item or the request:
\* no row carries the database error as its status, and a catalog load whose
\* text was fetched and parsed still lets the request answer normally.
C11_WriteFailureTolerated ==
    /\ \A i \in 1..Len(rows) : rows[i].status # MsgDb
    /\ (pc = "done" /\ world[K_CommitBlob] = Fail) => response = "200"

----------------------------------------------------------------------------
(* Claims about the two geocoder queries *)

\* the loop of lines 461-462 over a list of postal codes, from given tables
RECURSIVE BatchRows(_, _, _)
BatchRows(list, pcache, hmap) ==
    IF list = <<>> THEN <<>>
    ELSE LET r == compute_for_plz(Head(list), day, tbase, stations, pcache, hmap, now,
                                  Known)
         IN <<r.row>> \o BatchRows(Tail(list), r.plz_cache, r.hist_zip_map)

Without(seq, i) == SubSeq(seq, 1, i - 1) \o SubSeq(seq, i + 1, Len(seq))

\* the request found no usable plz_cache row for p
CacheMiss(p) == ~(start.plz_cache[p] # Nil /\ now - start.plz_cache[p].ts < PLZ_TTL)

NoResults == Body(<<>>)

\* C12: the free-text query of a postal code is sent exactly when its
\* postal-code query came back with zero results; a row reports the not-found
\* error exactly when both queries came back with zero results, and then no
\* plz_cache write was attempted and the row of the postal code is as the
\* request found it; the other rows of the finished batch are the rows of the
\* batch without that postal code.
C12_FreeTextRetry ==
    (pc \in {"items", "done"} /\ InputsValid) =>
        /\ \A p \in Plzs : world[<<"geo2", p>>] # Unset => world[<<"geo1", p>>] = NoResults
        /\ \A i \in 1..Len(rows) :
              LET p == rows[i].plz IN
              /\ (<<"geo2", p>> \in Range(calls)) <=> (world[<<"geo1", p>>] = NoResults)
              /\ (<<"geo1", p>> \in Range(calls)) <=> CacheMiss(p)
              /\ (rows[i].status = MsgGeocode) <=>
                    (world[<<"geo1", p>>] = NoResults /\ world[<<"geo2", p>>] = NoResults)
              /\ rows[i].status = MsgGeocode =>
                    /\ ~rows[i].ok
                    /\ world[K_CommitPlz(p)] = Unset
                    /\ plz_cache[p] = start.plz_cache[p]
                    /\ pc = "done" =>
                          Without(rows, i) = BatchRows(Without(plz_list, i), start.plz_cache,
                                                       start.hist_zip_map)

\* C12 witness: both queries of the first postal code found nothing, its row
\* reports it, and the second postal code's row is a success
C12_Witness ==
    /\ pc = "done" /\ Len(rows) = 2
    /\ world[<<"geo1", rows[1].plz>>] = NoResults
    /\ world[<<"geo2", rows[1].plz>>] = NoResults
    /\ rows[1].status = MsgGeocode
    /\ rows[2].ok

----------------------------------------------------------------------------
(* Claims about the two archive tiers *)

\* the step appends a row: one turn of the loop over plz_list
ItemStep == Len(rows') = Len(rows) + 1

\* the http_get calls of that turn, in order, and the row it appended
ItemCalls == SubSeq(calls', Len(calls) + 1, Len(calls'))

ItemRow == rows'[Len(rows')]

\* answers of the current-tier URL that count as a failed fetch
Raised == {Fail}

RaisedOrEmpty == {Fail, Body(EmptyBytes)}

\* Nothing of the historical tier (file-name commit, directory listing,
\* archive) has been asked for a station whose current-tier fetch did not fail
HistoricalAfterCurrent(failed) ==
    /\ \A sid \in Sids :
          (world[K_CommitHist(sid)] # Unset \/ world[<<"hist_zip", HistName(sid)>>] # Unset)
              => world[<<"recent_zip", sid>>] \in failed
    /\ world[K_Index] # Unset => \E sid \in Sids : world[<<"recent_zip", sid>>] \in failed

\* One turn of the loop keeps the order current tier, then historical tier
TierStep(failed) ==
    LET ic == ItemCalls
        recent == {h \in 1..Len(ic) : ic[h][1] = "recent_zip"}
    IN
    /\ \A j \in 1..Len(ic) :
          ic[j][1] \in {"hist_index", "hist_zip"} =>
              \E h \in recent : /\ h < j /\ world[ic[h]] \in failed
                                /\ ic[j][1] = "hist_zip" => ic[j][2].sid = ic[h][2]
    /\ hist_zip_map' # hist_zip_map => \E h \in recent : world[ic[h]] \in failed
    /\ \A h \in recent :
          world[ic[h]] \notin failed =>
              LET tm == read_tmk_from_zip(world[ic[h]].body, ymd_to_int(day)) IN
              /\ h = Len(ic)
              /\ hist_zip_map' = hist_zip_map
              /\ ItemRow.ok = tm.ok
              /\ tm.ok => /\ ItemRow.tmean = <<Round2(tm.val)>>
                           /\ ItemRow.station_name[2] = "recent"
              /\ ~tm.ok => ItemRow.status = tm.err
    /\ ItemRow.status = MsgZip =>
          /\ \E h \in recent : world[ic[h]] \in failed
          /\ \/ ic[Len(ic)] = K_Index
             \/ /\ ic[Len(ic)][1] = "hist_zip"
                /\ world[ic[Len(ic)]] \in RaisedOrEmpty

\* C13 (as claimed): the historical tier is entered only after the current-tier
\* request raised; a current-tier request that returns is used and ends the
\* resolution.
C13_AsClaimed ==
    [][HistoricalAfterCurrent(Raised)' /\ (ItemStep => TierStep(Raised))]_vars

\* C13 (amended): the file-name mapping is written, the directory listing and
\* the historical archive are requested only after the current-tier request of
\* that station, earlier in the same item, raised or returned zero bytes; a
\* current-tier request that returns bytes ends the resolution, and the row is
\* built from those bytes; the row reports the archive error only when, after
\* that, the listing held no file name of the station or the historical
\* request raised or returned zero bytes.
C13_TierOrder ==
    [][HistoricalAfterCurrent(RaisedOrEmpty)' /\ (ItemStep => TierStep(RaisedOrEmpty))]_vars

\* C13 witness: a successful row of the historical tier, taken after the
\* current-tier request of its station returned zero bytes
C13_Witness ==
    \E i \in 1..Len(rows) :
        /\ rows[i].ok /\ rows[i].station_name[2] = "historical"
        /\ world[<<"recent_zip", rows[i].station_id[1]>>] = Body(EmptyBytes)

----------------------------------------------------------------------------
(* Claims about the historical file-name mapping *)

NinetyDays == 90 * 24 * 3600

\* a mapping younger than 90 days exists for the station
MappingYounger(hmap, sid) == hmap[sid] # Nil /\ now - hmap[sid].ts < NinetyDays

\* the historical archive of a station has been requested only with its file
\* name in the mapping: found there young enough, or committed before
StoredBeforeFetch ==
    \A sid \in Sids :
        world[<<"hist_zip", HistName(sid)>>] # Unset =>
            \/ MappingYounger(hist_zip_map, sid)
            \/ world[K_CommitHist(sid)] = Committed

\* One turn of the loop that entered the historical tier for station sid
HistoricalStep(sid) ==
    LET ic      == ItemCalls
        listed  == K_Index \in Range(ic)
        fetched == {j \in 1..Len(ic) : ic[j][1] = "hist_zip"}
    IN
    /\ listed <=> ~MappingYounger(hist_zip_map, sid)
    /\ \A j \in fetched :
          /\ ic[j][2].sid = sid
          /\ hist_zip_map'[sid] # Nil /\ hist_zip_map'[sid].zip_name = ic[j][2]
          /\ IF listed THEN hist_zip_map'[sid].ts = now
                        ELSE hist_zip_map'[sid] = hist_zip_map[sid]
    /\ (listed /\ world[K_Index].ok /\ Matches(world[K_Index].body, sid) = {}) =>
          /\ fetched = {}
          /\ hist_zip_map' = hist_zip_map
          /\ world[K_CommitHist(sid)] = Unset
          /\ ItemRow.status = MsgZip

\* C14: the historical archive of a station is requested only once its file
\* name is in the mapping, and the mapping written for it stays whatever that
\* request answers; the directory listing is requested exactly when the
\* station has no mapping younger than 90 days; a listing without a file name
\* of the station leaves the mapping untouched, requests no archive and ends
\* the item with the archive error.
C14_NameCachedBeforeFetch ==
    [][/\ StoredBeforeFetch'
       /\ ItemStep =>
             \A h \in 1..Len(ItemCalls) :
                 (ItemCalls[h][1] = "recent_zip" /\ world[ItemCalls[h]] \in RaisedOrEmpty)
                     => HistoricalStep(ItemCalls[h][2])]_vars

\* C14 witness: the file name of a station was resolved from the listing and
\* stored in this request, and the archive request that followed raised
C14_Witness ==
    \E sid \in Sids :
        /\ pc = "done" /\ Len(rows) > 0
        /\ hist_zip_map[sid] # Nil /\ hist_zip_map[sid] # start.hist_zip_map[sid]
        /\ hist_zip_map[sid].zip_name = HistName(sid)
        /\ world[<<"hist_zip", HistName(sid)>>] = Fail
        /\ \E i \in 1..Len(rows) : rows[i].status = MsgZip

----------------------------------------------------------------------------
(* Claims about the choice of the station *)

\* C15: the station returned is, among the stations whose window contains the
\* date (among all stations when there is none), the first in catalog order of
\* those at the least distance from the point, and the distance returned is
\* that least distance; the call raises the no-station error exactly when the
\* catalog is empty.
C15_NearestFirstWins ==
    NearestDone =>
        LET cat     == args.stations
            d       == ymd_to_int(args.day)
            valid   == {i \in 1..Len(cat) : InWindow(cat[i], d)}
            cand    == IF valid = {} THEN 1..Len(cat) ELSE valid
            dist(i) == haversine_km(args.pt[1], args.pt[2], cat[i].lat, cat[i].lon)
        IN /\ ~ret.ok <=> cat = <<>>
           /\ ~ret.ok => ret.err = MsgNoStation
           /\ ret.ok =>
                 \E i \in cand :
                     /\ ret.st = cat[i] /\ ret.dist = dist(i)
                     /\ \A j \in cand : dist(j) >= dist(i)
                     /\ \A j \in cand : dist(j) = dist(i) => j >= i

\* C15 witness: two different stations valid on the date lie at the same least
\* distance, and the earlier one in the catalog was returned
C15_Witness ==
    /\ NearestDone /\ ret.ok
    /\ \E i, j \in 1..Len(args.stations) :
          LET cat == args.stations
              d   == ymd_to_int(args.day)
          IN /\ i < j /\ cat[i] # cat[j]
             /\ InWindow(cat[i], d) /\ InWindow(cat[j], d)
             /\ ret.st = cat[i]
             /\ haversine_km(args.pt[1], args.pt[2], cat[j].lat, cat[j].lon) = ret.dist
             /\ \A k \in 1..Len(cat) :
                   InWindow(cat[k], d) =>
                       haversine_km(args.pt[1], args.pt[2], cat[k].lat, cat[k].lon) >= ret.dist

----------------------------------------------------------------------------
(* Claims about the station catalog *)

\* C16 (as claimed): the loop over the postal codes never runs on an empty
\* catalog, and the snapshot in blob_cache is never the empty one.
C16_EmptyCatalogRejected ==
    /\ pc = "items" => stations # <<>>
    /\ blob_cache # [content |-> <<>>]

\* C17 (as claimed): when the station text that was fetched holds well-formed
\* records next to one whose latitude or longitude is not a number, the load
\* succeeds with the well-formed records.
C17_MalformedRecordSkipped ==
    (/\ pc \in {"items", "done"}
     /\ plz_list # <<>>
     /\ world[K_StRecent] = Body(Text_badfl)
     /\ world[K_CommitBlob] # Fail) =>
        /\ response # "500"
        /\ stations = ParseStationLines(<<Line_st1>>)

----------------------------------------------------------------------------
(* Claims about missing values *)

\* the data lines of the archive that carry the date and a TMK field
RowsOfDate(z, d) ==
    {i \in 2..Len(z.lines) : Len(z.lines[i]) >= 2 /\ z.lines[i][1] = ymd_to_int(d)}

\* C18 (as claimed): when the first row of the target date holds a parseable
\* temperature above -900, zero and negative ones included, extraction returns
\* that temperature; extraction reports the value as missing only for a
\* sentinel or a text that does not parse.
C18_OnlySentinelMissing ==
    (ExtractDone /\ WellFormed(args.zip_bytes)
       /\ RowsOfDate(args.zip_bytes, args.day) # {}) =>
        LET z == args.zip_bytes
            v == z.lines[Min(RowsOfDate(z, args.day))][2]
        IN /\ SpecValidTmk(v) => ret = Ok(FloatOf(v))
           /\ (~ret.ok /\ ret.err = MsgTmkNA) => ~SpecValidTmk(v)

----------------------------------------------------------------------------
(* Claims about concurrent invocations *)

\* what the geocoder answered and how the invocation's own commit ended; a
\* commit it never attempted counts as one that succeeds
RespOf(q) ==
    [k \in Keys |-> IF k = K_CommitPlz(args[q].plz)
                    THEN (IF args[q].commit = Unset THEN Committed ELSE args[q].commit)
                    ELSE Known[k]]

\* what geocode_plz returns to invocation q when it runs from the given row
\* with nothing else running
Alone(q, row) == GeoRet(geocode_plz(args[q].plz, row, args[q].t, RespOf(q)))

BothDone == Racing /\ \A q \in Procs : args[q].pc = "done"

\* C19: when both invocations have returned, the plz_cache row of every postal
\* code is, in full, the row the last invocation to commit wrote (the row the
\* invocations found when none committed); and each invocation returned what
\* geocode_plz returns when it runs alone, from the table as the two found it
\* as well as from the row it read itself.
C19_LastWriterWins ==
    BothDone =>
        /\ \A p \in Plzs :
              plz_cache[p] = IF last_ok[p] = 0 THEN start.plz_cache[p]
                             ELSE args[last_ok[p]].wrote
        /\ \A q \in Procs :
              /\ ret[q] = Alone(q, args[q].seen)
              /\ ret[q] = Alone(q, start.plz_cache[args[q].plz])

\* C19 witness: both invocations missed the stale row of the same postal code
\* at different times, both committed, and the table holds the second one's row
C19_Witness ==
    /\ BothDone
    /\ args[1].plz = args[2].plz
    /\ args[1].seen = StaleRow(args[1].plz) /\ args[2].seen = StaleRow(args[2].plz)
    /\ args[1].wrote # Nil /\ args[2].wrote # Nil
    /\ args[1].wrote # args[2].wrote
    /\ last_ok[args[1].plz] = 1
    /\ plz_cache[args[1].plz] = args[1].wrote

----------------------------------------------------------------------------
(* Claims about the fields of a row *)

\* the bytes a URL delivered: Nil when it raised or was not asked
Delivered(k) == IF Known[k].ok THEN Known[k].body ELSE Nil

\* every stage of the item of p succeeded: geocoding, station choice, archive
\* fetch from one of the tiers, extraction
StagesOk(p) ==
    LET g == geocode_plz(p, start.plz_cache[p], now, Known) IN
    /\ g.ok
    /\ LET n == nearest_station_for_date(g.lat, g.lon, ymd_to_int(day), stations) IN
       /\ n.ok
       /\ LET rec == try_fetch_recent_zip(n.st.sid, Known)
              his == try_fetch_historical_zip(n.st.sid, start.hist_zip_map[n.st.sid], now,
                                              Known)
          IN \/ /\ ~NoBytes(rec.bytes)
                /\ read_tmk_from_zip(rec.bytes, ymd_to_int(day)).ok
             \/ /\ NoBytes(rec.bytes) /\ ~his.raised /\ ~NoBytes(his.bytes)
                /\ read_tmk_from_zip(his.bytes, ymd_to_int(day)).ok

\* C20: a row is ok exactly when every stage of its item succeeded; an ok row
\* has status "OK", carries coordinates, station, distance, tmean and hdd, and
\* its station name is labelled "recent" exactly when the current-tier request
\* delivered bytes and "historical" exactly when it did not and the historical
\* request did; a row that is not ok carries none of coordinates, place,
\* station, distance, tmean and hdd; every row carries its postal code, the
\* date and tbase.
C20_RowShape ==
    (pc \in {"items", "done"} /\ InputsValid) =>
        \A i \in 1..Len(rows) :
            LET r == rows[i] IN
            /\ r.plz = plz_list[i] /\ r.day = day /\ r.tbase = <<Round2(tbase)>>
            /\ r.ok <=> StagesOk(r.plz)
            /\ r.ok <=> r.status = "OK"
            /\ r.ok =>
                  LET sid == r.station_id[1]
                      rec == Delivered(<<"recent_zip", sid>>)
                      his == Delivered(<<"hist_zip", HistName(sid)>>)
                  IN /\ Len(r.lat) = 1 /\ Len(r.lon) = 1 /\ Len(r.dist_km) = 1
                     /\ Len(r.station_id) = 1 /\ Len(r.station_name) = 2
                     /\ Len(r.tmean) = 1 /\ Len(r.hdd) = 1
                     /\ r.station_name[2] \in {"recent", "historical"}
                     /\ r.station_name[2] = "recent" <=> ~NoBytes(rec)
                     /\ r.station_name[2] = "historical" <=> (NoBytes(rec) /\ ~NoBytes(his))
            /\ ~r.ok =>
                  /\ r.lat = Absent /\ r.lon = Absent /\ r.place = Absent
                  /\ r.station_id = Absent /\ r.station_name = Absent
                  /\ r.dist_km = Absent /\ r.tmean = Absent /\ r.hdd = Absent

\* C20 witness: a finished batch with a failed row and a successful row of the
\* historical tier
C20_Witness ==
    /\ pc = "done" /\ Len(rows) = 2
    /\ ~rows[1].ok /\ rows[1].tbase # Absent
    /\ rows[2].ok /\ rows[2].station_name[2] = "historical"

====
